---------------------------- MODULE Spec2Model ----------------------------
(***************************************************************************)
(* Model of tunnel_rpc/methods.py: the RPC method `run`, which creates a   *)
(* Docker container, streams commands into it (eval_commands), parses the  *)
(* combined log (parse_output), repackages the artifacts                   *)
(* (retrieve_archive_base64) and removes the container.                    *)
(*                                                                         *)
(* Text is a sequence of one-character strings.  A Python dict is a        *)
(* function whose DOMAIN is its key set.  The Docker daemon, the socket,   *)
(* tarfile, fnmatch and base64 are libraries: they are modelled at the     *)
(* interface the code calls them through.                                  *)
(***************************************************************************)
EXTENDS Integers, Sequences, FiniteSets, TLC

\* ------------------------------------------------------------------ bounds
\* Longest command list of a request.
MaxCmds == 2
\* A write to the socket may accept up to MaxShort bytes fewer than offered.
MaxShort == 1
\* Longest log, in pieces of LogPieces, the parser specification explores.
MaxPieces == 3
\* Most chunks get_archive's stream delivers an archive in.
MaxChunks == 2
\* Most members of a tree the archive specification explores.
MaxMembers == 3

\* ------------------------------------------------------------ Python values
\* Python's None, among values that are records tagged by their type.
None == [t |-> "none"]

\* A str value holding text v.
Str(v) == [t |-> "str", v |-> v]

LF == "\n"
CR == "\r"

\* dict.get(key, default); a dict of the request is a record of its values
\* with the set `keys` of the keys that are present.
Get(d, key, default) == IF key \in d.keys THEN d[key] ELSE default

\* Truthiness of an optional str (`if source_base64:`): None and "" are falsy.
Truthy(x) == x.t # "none" /\ ~(x.t = "str" /\ x.v = <<>>)

\* ------------------------------------------------------------- str methods
\* s[i:], 1-based.
Drop(s, n) == SubSeq(s, n + 1, Len(s))

StartsWith(s, p) == Len(s) >= Len(p) /\ SubSeq(s, 1, Len(p)) = p

\* str.replace(old, new): every non-overlapping occurrence, left to right.
RECURSIVE Replace(_, _, _)
Replace(s, old, new) ==
    IF Len(s) < Len(old) THEN s
    ELSE IF StartsWith(s, old)
         THEN new \o Replace(Drop(s, Len(old)), old, new)
         ELSE <<s[1]>> \o Replace(Tail(s), old, new)

\* The offset of the first occurrence of sep in s (0-based), or -1: str.find.
RECURSIVE Find(_, _)
Find(s, sep) ==
    IF Len(s) < Len(sep) THEN -1
    ELSE IF StartsWith(s, sep) THEN 0
         ELSE LET k == Find(Tail(s), sep) IN IF k < 0 THEN -1 ELSE k + 1

\* str.split(sep): the pieces between the occurrences of sep; never empty.
RECURSIVE Split(_, _)
Split(s, sep) ==
    LET k == Find(s, sep)
    IN  IF k < 0 THEN <<s>>
        ELSE <<SubSeq(s, 1, k)>> \o Split(Drop(s, k + Len(sep)), sep)

\* Concatenation of a list of texts.
RECURSIVE Concat(_)
Concat(ss) == IF ss = <<>> THEN <<>> ELSE Head(ss) \o Concat(Tail(ss))


\* ------------------------------------------------------------------- bytes
\* The code points of the characters the model's texts are written in.
Ord ==
    [c \in {"a", "b", "c", "e", "h", "i", "l", "o", "s", "t", "x", "A", "T", "X",
            " ", ";", "[", "]", "-", ".", "/", "*", "?", LF, CR} |->
        CASE c = "a" -> 97 [] c = "b" -> 98 [] c = "c" -> 99 [] c = "e" -> 101
          [] c = "h" -> 104 [] c = "i" -> 105 [] c = "l" -> 108 [] c = "o" -> 111
          [] c = "s" -> 115 [] c = "t" -> 116 [] c = "x" -> 120 [] c = "A" -> 65
          [] c = "T" -> 84 [] c = "X" -> 88 [] c = " " -> 32 [] c = ";" -> 59
          [] c = "[" -> 91 [] c = "]" -> 93 [] c = "-" -> 45 [] c = "." -> 46
          [] c = "/" -> 47 [] c = "*" -> 42 [] c = "?" -> 63 [] c = LF -> 10
          [] c = CR -> 13]

\* str.encode("utf-8") of ASCII text: one byte for each character.
Utf8Encode(s) == [i \in 1..Len(s) |-> Ord[s[i]]]

\* Whether bytes.decode() accepts b: every byte is one of the ASCII code points
\* (a byte such as 0xFF raises UnicodeDecodeError).
Decodable(b) == \A i \in 1..Len(b) : \E c \in DOMAIN Ord : Ord[c] = b[i]

\* bytes.decode() of decodable bytes.
Utf8Decode(b) == [i \in 1..Len(b) |-> CHOOSE c \in DOMAIN Ord : Ord[c] = b[i]]

\* ----------------------------------------------------------- eval_commands
\* str.replace(old, new, 1): the first occurrence only.
ReplaceFirst(s, old, new) ==
    LET k == Find(s, old)
    IN  IF k < 0 THEN s
        ELSE SubSeq(s, 1, k) \o new \o Drop(s, k + Len(old))

\* Mutant of StreamLine: only the first line feed is replaced.
StreamLineFirstOnly(cmd) ==
    Utf8Encode(ReplaceFirst(cmd, <<LF>>, <<" ", ";", " ">>) \o <<LF>>)

\* The command as sent: cmd.replace("\n", " ; ") + "\n", encoded.
StreamLine(cmd) == Utf8Encode(Replace(cmd, <<LF>>, <<" ", ";", " ">>) \o <<LF>>)

\* commands + ["exit"]
WithExit(commands) == commands \o << <<"e", "x", "i", "t">> >>

\* ------------------------------------------------------------ parse_output
\* re.match(r"^\[([^\]]*)\] (.*)$", line): <<key, value>> of a match, or <<>>.
\* [^\]]* stops at the first "]"; "." matches no line feed; "$" matches at the
\* end and before one final line feed.
TagMatch(line) ==
    IF ~StartsWith(line, <<"[">>) THEN <<>>
    ELSE LET close == Find(line, <<"]">>)
             rest  == Drop(line, close + 2)
             nl    == Find(rest, <<LF>>)
         IN  IF close < 0 \/ Len(line) < close + 2 \/ line[close + 2] # " "
             THEN <<>>
             ELSE IF nl < 0 THEN <<SubSeq(line, 2, close), rest>>
             ELSE IF nl = Len(rest) - 1
                  THEN <<SubSeq(line, 2, close), SubSeq(rest, 1, nl)>>
             ELSE <<>>

\* command[key].append(value) on a defaultdict(list).
DictAppend(command, key, value) ==
    IF key \in DOMAIN command
    THEN [command EXCEPT ![key] = Append(@, value)]
    ELSE [k \in DOMAIN command \cup {key} |->
            IF k = key THEN <<value>> ELSE command[k]]

\* The inner loop: the tagged lines of one block, grouped by key.
RECURSIVE GroupLines(_, _)
GroupLines(lines_, command) ==
    IF lines_ = <<>> THEN command
    ELSE LET match == TagMatch(Head(lines_))
         IN  GroupLines(Tail(lines_),
                        IF match # <<>>
                        THEN DictAppend(command, match[1], match[2])
                        ELSE command)

\* The empty dict.
EmptyDict == [k \in {} |-> <<>>]

\* any(command): iterating a dict yields its keys; the empty str is falsy.
AnyKey(command) == \E k \in DOMAIN command : k # <<>>

\* The outer loop over the blocks.
RECURSIVE ParseBlocks(_)
ParseBlocks(blocks) ==
    IF blocks = <<>> THEN <<>>
    ELSE LET command == GroupLines(Split(Head(blocks), <<LF>>), EmptyDict)
         IN  (IF AnyKey(command) THEN <<command>> ELSE <<>>)
             \o ParseBlocks(Tail(blocks))

\* Mutant of Blocks: a new block at every line feed.
BlocksPerLine(output) == Split(Replace(output, <<CR, LF>>, <<LF>>), <<LF>>)

\* Where the output is cut into blocks: output.replace("\r\n", "\n").split("---\n")
Blocks(output) == Split(Replace(output, <<CR, LF>>, <<LF>>), <<"-", "-", "-", LF>>)

parse_output(output) == ParseBlocks(Blocks(output))

\* ------------------------------------------------- retrieve_archive_base64
\* posixpath.join(a, b)
PathJoin(a, b) ==
    IF StartsWith(b, <<"/">>) THEN b
    ELSE IF a = <<>> \/ a[Len(a)] = "/" THEN a \o b
    ELSE a \o <<"/">> \o b

\* Glob matching of a whole name: "*" matches any run of characters and "?"
\* any one character, where a wildcard matches the separator "/" only if
\* `crossing`; every other character matches itself, case-sensitively.
RECURSIVE Glob(_, _, _)
Glob(name, pat, crossing) ==
    IF pat = <<>> THEN name = <<>>
    ELSE IF pat[1] \in {"*", "?"}
         THEN \/ pat[1] = "*" /\ Glob(name, Tail(pat), crossing)
              \/ /\ name # <<>>
                 /\ crossing \/ name[1] # "/"
                 /\ Glob(Tail(name), IF pat[1] = "*" THEN pat ELSE Tail(pat),
                         crossing)
    ELSE name # <<>> /\ name[1] = pat[1] /\ Glob(Tail(name), Tail(pat), crossing)

\* Mutant of fnmatch: wildcards stay within one path segment.
fnmatchSegment(name, pat) == Glob(name, pat, FALSE)

\* fnmatch.fnmatch(name, pat) on POSIX (normcase changes nothing): the whole
\* name must match; "*" is translated to ".*" and "?" to ".", both matching
\* any character; every other character matches itself.  (The patterns of the
\* model hold no "[".)
RECURSIVE fnmatch(_, _)
fnmatch(name, pat) ==
    IF pat = <<>> THEN name = <<>>
    ELSE IF pat[1] = "*"
         THEN fnmatch(name, Tail(pat))
              \/ (name # <<>> /\ fnmatch(Tail(name), pat))
    ELSE IF pat[1] = "?"
         THEN name # <<>> /\ fnmatch(Tail(name), Tail(pat))
    ELSE name # <<>> /\ name[1] = pat[1] /\ fnmatch(Tail(name), Tail(pat))

\* any(fnmatch(member.name, os.path.join(base_path, artifact)) for artifact in artifacts)
Selected(member, base_path, artifacts) ==
    \E i \in 1..Len(artifacts) :
        fnmatch(member.name, PathJoin(base_path, artifacts[i]))

\* An archive is the sequence of its members, each a TarInfo
\* [name, type, mode, size, linkname] with the data that follows its header.
\* TarFile.getmembers(): the TarInfo of every member, in archive order.
TarInfo(m) == [name |-> m.name, type |-> m.type, mode |-> m.mode,
               size |-> m.size, linkname |-> m.linkname]

\* The last member of the archive with that name (TarFile._getmember), or 0.
FindMember(archive, name) ==
    LET hits == {i \in 1..Len(archive) : archive[i].name = name}
    IN  IF hits = {} THEN 0 ELSE CHOOSE i \in hits : \A j \in hits : j <= i

\* TarFile.extractfile(member), member the i-th of the archive: the data of a
\* regular file, None for a directory, the target's file object for a link
\* (depth bounds the chain of links), and "KeyError" for a link whose target
\* is not in the archive.
RECURSIVE ExtractFile(_, _, _)
ExtractFile(archive, i, depth) ==
    LET m == archive[i]
    IN  IF m.type = "reg" THEN [t |-> "file", data |-> m.data]
        ELSE IF m.type = "sym"
             THEN LET target == FindMember(archive, m.linkname)
                  IN  IF target = 0 \/ depth = 0 THEN [t |-> "KeyError"]
                      ELSE ExtractFile(archive, target, depth - 1)
        ELSE None

\* Mutant of AddFile: the header is added without the member's data.
AddFileNoData(out, tarinfo, fileobj) ==
    Append(out, [name |-> tarinfo.name, type |-> tarinfo.type,
                 mode |-> tarinfo.mode, size |-> tarinfo.size,
                 linkname |-> tarinfo.linkname, data |-> <<>>])

\* TarFile.addfile(tarinfo, fileobj): the header, then tarinfo.size bytes
\* copied from fileobj when there is one.
AddFile(out, tarinfo, fileobj) ==
    Append(out, [name |-> tarinfo.name, type |-> tarinfo.type,
                 mode |-> tarinfo.mode, size |-> tarinfo.size,
                 linkname |-> tarinfo.linkname,
                 data |-> IF fileobj.t = "none" THEN <<>>
                          ELSE SubSeq(fileobj.data, 1, tarinfo.size)])

\* The indices of the members the comprehension keeps, in archive order.
RECURSIVE Matching(_, _, _, _)
Matching(archive, i, base_path, artifacts) ==
    IF i > Len(archive) THEN <<>>
    ELSE (IF Selected(archive[i], base_path, artifacts) THEN <<i>> ELSE <<>>)
         \o Matching(archive, i + 1, base_path, artifacts)

\* Whether building `members` raises: extractfile of a kept link fails.
ExtractRaises(archive, base_path, artifacts) ==
    LET keep == Matching(archive, 1, base_path, artifacts)
    IN  \E k \in 1..Len(keep) : 
            ExtractFile(archive, keep[k], Len(archive)).t = "KeyError"

\* The second loop: out_stream.addfile(member, fileobj=data) for each pair.
RECURSIVE AddAll(_, _, _)
AddAll(out, archive, keep) ==
    IF keep = <<>> THEN out
    ELSE AddAll(AddFile(out, TarInfo(archive[Head(keep)]),
                        ExtractFile(archive, Head(keep), Len(archive))),
                archive, Tail(keep))

\* The archive written to out_obj.
FilterArchive(archive, base_path, artifacts) ==
    AddAll(<<>>, archive, Matching(archive, 1, base_path, artifacts))

\* b64encode(...).decode('utf-8'): a str that carries the bytes it encodes.
B64Encode(bytes) == [t |-> "b64", bytes |-> bytes]

\* Whether b64decode accepts the str (binascii.Error otherwise).
B64Valid(text) == text.t = "b64"

\* b64decode(text) of accepted text.
B64Decode(text) == text.bytes


\* The ways the retrieval stream may deliver the blocks of an archive in at
\* most n chunks (a chunk may be empty).
RECURSIVE Chunkings(_, _)
Chunkings(bytes, n) ==
    IF n <= 1 THEN {<<bytes>>}
    ELSE Chunkings(bytes, n - 1)
         \cup UNION {{<<SubSeq(bytes, 1, k)>> \o rest :
                         rest \in Chunkings(Drop(bytes, k), n - 1)} :
                      k \in 0..Len(bytes)}

\* ------------------------------------------------------------------ inputs
\* Every list over S of at most n elements.
Lists(S, n) == UNION {[1..k -> S] : k \in 0..n}

\* "echo a\necho b", "ls", "" and "\na\n\n"
CmdEcho == <<"e", "c", "h", "o", " ", "a", LF, "e", "c", "h", "o", " ", "b">>
CmdLs == <<"l", "s">>
CmdLines == <<LF, "a", LF, LF>>
CmdSet == {CmdEcho, CmdLs, <<>>, CmdLines}

Build == <<"b", "u", "i", "l", "d">>
Member(name, type, mode, linkname, data) ==
    [name |-> name, type |-> type, mode |-> mode, size |-> Len(data),
     linkname |-> linkname, data |-> data]

\* build, build/a.txt, build/b.log, build/sub/c.txt, build/A.TXT, and two
\* links build/l.txt -> build/a.txt, build/x.txt -> a file outside the tree
\* (linkname holds the resolved name of the target).
MDir == Member(Build, "dir", 493, <<>>, <<>>)
MA == Member(Build \o <<"/", "a", ".", "t", "x", "t">>, "reg", 420, <<>>, <<1, 2>>)
MB == Member(Build \o <<"/", "b", ".", "l", "o", "g">>, "reg", 420, <<>>, <<3>>)
MC == Member(Build \o <<"/", "s", "u", "b", "/", "c", ".", "t", "x", "t">>,
             "reg", 384, <<>>, <<4>>)
MUp == Member(Build \o <<"/", "A", ".", "T", "X", "T">>, "reg", 420, <<>>, <<5>>)
ML == Member(Build \o <<"/", "l", ".", "t", "x", "t">>, "sym", 511, MA.name, <<>>)
MX == Member(Build \o <<"/", "x", ".", "t", "x", "t">>, "sym", 511,
             <<"/", "x">>, <<>>)
Master == <<MDir, MA, MB, MC, MUp, ML, MX>>

\* The members of s at the indices in S, in their order in s.
RECURSIVE Pick(_, _, _)
Pick(s, S, i) ==
    IF i > Len(s) THEN <<>>
    ELSE (IF i \in S THEN <<s[i]>> ELSE <<>>) \o Pick(s, S, i + 1)

TreesAll ==
    {Pick(Master, S, 1) : S \in {T \in SUBSET (1..Len(Master)) : Cardinality(T) <= MaxMembers}}
TreesSmall == {<<MA, MB>>, <<MX>>}

\* The patterns "*.txt", "*.log", "sub/*", "?.txt", "*", "a.TXT",
\* "/build/a.txt" and "none".
PTxt == <<"*", ".", "t", "x", "t">>
PLog == <<"*", ".", "l", "o", "g">>
PSub == <<"s", "u", "b", "/", "*">>
PQ == <<"?", ".", "t", "x", "t">>
PAll == <<"*">>
PCase == <<"a", ".", "T", "X", "T">>
PAbs == <<"/">> \o MA.name
PNone == <<"n", "o", "n", "e">>
ArtifactLists ==
    {<<>>, <<PTxt>>, <<PLog, PTxt>>, <<PSub>>, <<PQ>>, <<PAll>>, <<PCase>>,
     <<PAbs>>, <<PNone>>}

\* request.get("dist", {}): the dict without keys.
EmptyDist == [keys |-> {}, base_path |-> <<>>, artifacts |-> <<>>]
Dist(base_path, artifacts) ==
    [keys |-> {"base_path", "artifacts"}, base_path |-> base_path,
     artifacts |-> artifacts]
DistTxt == Dist(Build, <<PTxt>>)
DistSmall == {EmptyDist, Dist(Build, <<>>), DistTxt}
DistAll ==
    {Dist(Build, a) : a \in ArtifactLists}
    \cup {[keys |-> {"artifacts"}, base_path |-> <<>>, artifacts |-> a] :
            a \in ArtifactLists}
    \cup {EmptyDist, [keys |-> {"base_path"}, base_path |-> Build, artifacts |-> <<>>]}

\* The source tree of a request, and the values of "source".
SrcArchive == <<MA>>
SourceSet == {None, Str(<<>>), Str(<<"x">>), B64Encode(SrcArchive)}

\* The logs: "[o] a\n---\n[e] b\n", and bytes that are no UTF-8.
LogHello == <<"[", "o", "]", " ", "a", LF, "-", "-", "-", LF,
              "[", "e", "]", " ", "b", LF>>
LogBad == <<255>>
LogPieces ==
    {<<"[", "o", "]", " ", "a", LF>>, <<"[", "e", "]", " ", "b", LF>>,
     <<"[", "]", " ", "c", LF>>, <<"x", LF>>, <<"-", "-", "-", LF>>,
     <<"[", "o", "]", " ", "a", "-", "-", "-">>,
     <<"[", "o", "]", " ", "a", CR>>, <<LF>>}
LogsAll ==
    {Utf8Encode(Concat(ps)) : ps \in Lists(LogPieces, MaxPieces)} \cup {LogBad}

\* The logs and the trees the environment may produce: the small sets, or
\* all of them where the world says so.
LogsOf(w) == IF w.logs = "all" THEN LogsAll ELSE {Utf8Encode(LogHello), LogBad}
TreesOf(w) == IF w.trees = "all" THEN TreesAll ELSE TreesSmall

\* ------------------------------------------------------------------- state
\* The concurrent callers of run.
Requests == {"r1", "r2"}

VARIABLES
    world,          \* which logs and trees the environment may produce
    request,        \* run's argument, per caller
    pc,             \* where each call of run stands
    container,      \* run's local `container` (0: none yet)
    containers,     \* the Docker daemon's containers, by id
    idx,            \* iterations of the write loop completed
    writes,         \* the buffers handed to os.write so far
    lines,          \* run's local `lines`
    results,        \* run's local `results`
    strm,           \* the chunks get_archive's stream has still to deliver
    in_obj,         \* retrieve_archive_base64's local `in_obj`
    output_tarball, \* run's local `output_tarball`
    ret             \* how the call ended: pending, raised or a Result

vars == <<world, request, pc, container, containers, idx, writes, lines,
          results, strm, in_obj, output_tarball, ret>>

\* request.get("source", None), request.get("commands", []), request.get("dist", {})
Source(r) == Get(request[r], "source", None)
Commands(r) == Get(request[r], "commands", <<>>)
Distribution(r) == Get(request[r], "dist", EmptyDist)

\* distribution_config.get("base_path", ""), distribution_config.get("artifacts", [])
BasePath(r) == Get(Distribution(r), "base_path", <<>>)
Artifacts(r) == Get(Distribution(r), "artifacts", <<>>)

\* A container as api_client.create_container leaves it; `tree` is the
\* archive get_archive last streamed from it.
NewContainer(r) ==
    [status |-> "created", stdin |-> <<>>, closed |-> FALSE, src |-> <<>>,
     tree |-> <<>>,
     ops |-> <<[op |-> "create", by |-> r, status |-> "created"]>>]

\* The daemon's record of an operation on container c issued by r.
Op(c, r, name) == [op |-> name, by |-> r, status |-> containers[c].status]

\* An exception leaves run: nothing of run runs after it.
Raise(r, stage) ==
    /\ pc' = [pc EXCEPT ![r] = "raised"]
    /\ ret' = [ret EXCEPT ![r] = [t |-> "raised", at |-> stage]]

Goto(r, label) == pc' = [pc EXCEPT ![r] = label] /\ UNCHANGED ret

\* ----------------------------------------------------------------- actions
\* Mutant of CreateContainer: a container that exists is used again.
CreateContainerShared(r) ==
    /\ pc[r] = "create"
    /\ \/ /\ IF containers = <<>>
             THEN /\ containers' = Append(containers, NewContainer(r))
                  /\ container' = [container EXCEPT ![r] = 1]
             ELSE /\ containers' = containers
                  /\ container' = [container EXCEPT ![r] = 1]
          /\ Goto(r, "request")
       \/ /\ Raise(r, "create_container")
          /\ UNCHANGED <<containers, container>>
    /\ UNCHANGED <<world, request, idx, writes, lines, results, strm, in_obj,
                   output_tarball>>

\* run, lines 153-154: api_client.create_container(...)
CreateContainer(r) ==
    /\ pc[r] = "create"
    /\ \/ /\ containers' = Append(containers, NewContainer(r))
          /\ container' = [container EXCEPT ![r] = Len(containers) + 1]
          /\ Goto(r, "request")
       \/ /\ Raise(r, "create_container")
          /\ UNCHANGED <<containers, container>>
    /\ UNCHANGED <<world, request, idx, writes, lines, results, strm, in_obj,
                   output_tarball>>

\* Mutant of ReadRequest: the source is never unpacked.
ReadRequestSkipsSource(r) ==
    /\ pc[r] = "request"
    /\ IF request[r].none THEN Raise(r, "request") ELSE Goto(r, "start")
    /\ UNCHANGED <<world, request, container, containers, idx, writes, lines,
                   results, strm, in_obj, output_tarball>>

\* run, lines 155-156: request.get(...) on the default request=None raises.
ReadRequest(r) ==
    /\ pc[r] = "request"
    /\ IF request[r].none THEN Raise(r, "request")
       ELSE Goto(r, IF Truthy(Source(r)) THEN "put_archive" ELSE "start")
    /\ UNCHANGED <<world, request, container, containers, idx, writes, lines,
                   results, strm, in_obj, output_tarball>>

\* eval_commands, lines 55-57: b64decode, then put_archive.
PutArchive(r) ==
    /\ pc[r] = "put_archive"
    /\ LET c == container[r]
       IN  IF ~B64Valid(Source(r))
           THEN Raise(r, "b64decode") /\ UNCHANGED containers
           ELSE \/ /\ containers' = [containers EXCEPT
                         ![c].src = B64Decode(Source(r)),
                         ![c].ops = Append(@, Op(c, r, "put_archive"))]
                   /\ Goto(r, "start")
                \/ /\ Raise(r, "put_archive")
                   /\ UNCHANGED containers
    /\ UNCHANGED <<world, request, container, idx, writes, lines, results,
                   strm, in_obj, output_tarball>>

\* eval_commands, line 59
Start(r) ==
    /\ pc[r] = "start"
    /\ LET c == container[r]
       IN  \/ /\ containers' = [containers EXCEPT
                     ![c].ops = Append(@, Op(c, r, "start")),
                     ![c].status = "running"]
              /\ Goto(r, "attach")
           \/ /\ Raise(r, "start")
              /\ UNCHANGED containers
    /\ UNCHANGED <<world, request, container, idx, writes, lines, results,
                   strm, in_obj, output_tarball>>

\* eval_commands, lines 61-64
Attach(r) ==
    /\ pc[r] = "attach"
    /\ LET c == container[r]
       IN  \/ /\ containers' = [containers EXCEPT
                     ![c].ops = Append(@, Op(c, r, "attach"))]
              /\ Goto(r, "write")
           \/ /\ Raise(r, "attach")
              /\ UNCHANGED containers
    /\ UNCHANGED <<world, request, container, idx, writes, lines, results,
                   strm, in_obj, output_tarball>>

\* The buffer the write loop hands to os.write in its next iteration.
NextBuffer(r) == StreamLine(WithExit(Commands(r))[idx[r] + 1])

\* Mutant of Write: a failed write is swallowed and the loop goes on.
WriteSwallowsError(r) ==
    /\ pc[r] = "write"
    /\ LET c == container[r]
           buf == NextBuffer(r)
       IN  /\ writes' = [writes EXCEPT ![r] = Append(@, buf)]
           /\ \/ \E short \in 0..MaxShort :
                   /\ short < Len(buf)
                   /\ containers' = [containers EXCEPT
                         ![c].stdin = @ \o SubSeq(buf, 1, Len(buf) - short),
                         ![c].ops = Append(@, Op(c, r, "write"))]
              \/ UNCHANGED containers
           /\ idx' = [idx EXCEPT ![r] = @ + 1]
           /\ Goto(r, IF idx[r] + 1 = Len(WithExit(Commands(r)))
                      THEN "close" ELSE "write")
    /\ UNCHANGED <<world, request, container, lines, results, strm, in_obj,
                   output_tarball>>

\* eval_commands, lines 66-69: one iteration of the loop.  os.write may accept
\* fewer bytes than offered (its return value is not read), or raise.
Write(r) ==
    /\ pc[r] = "write"
    /\ LET c == container[r]
           buf == NextBuffer(r)
       IN  /\ writes' = [writes EXCEPT ![r] = Append(@, buf)]
           /\ \/ \E short \in 0..MaxShort :
                   /\ short < Len(buf)
                   /\ containers' = [containers EXCEPT
                         ![c].stdin = @ \o SubSeq(buf, 1, Len(buf) - short),
                         ![c].ops = Append(@, Op(c, r, "write"))]
                   /\ idx' = [idx EXCEPT ![r] = @ + 1]
                   /\ Goto(r, IF idx[r] + 1 = Len(WithExit(Commands(r)))
                              THEN "close" ELSE "write")
              \/ /\ Raise(r, "write")
                 /\ UNCHANGED <<containers, idx>>
    /\ UNCHANGED <<world, request, container, lines, results, strm, in_obj,
                   output_tarball>>

\* eval_commands, line 70
Close(r) ==
    /\ pc[r] = "close"
    /\ LET c == container[r]
       IN  \/ /\ containers' = [containers EXCEPT
                     ![c].closed = TRUE,
                     ![c].ops = Append(@, Op(c, r, "close"))]
              /\ Goto(r, "wait")
           \/ /\ Raise(r, "close")
              /\ UNCHANGED containers
    /\ UNCHANGED <<world, request, container, idx, writes, lines, results,
                   strm, in_obj, output_tarball>>

\* The container's process ends (the shell reads "exit" or the end of its
\* input, or a command ends it).
ProcessExit(c) ==
    /\ c \in 1..Len(containers)
    /\ containers[c].status = "running"
    /\ containers' = [containers EXCEPT ![c].status = "exited"]
    /\ UNCHANGED <<world, request, pc, container, idx, writes, lines, results,
                   strm, in_obj, output_tarball, ret>>

\* Mutant of Wait: the call returns while the process may still run.
WaitNoBlock(r) ==
    /\ pc[r] = "wait"
    /\ LET c == container[r]
       IN  \/ /\ containers' = [containers EXCEPT
                     ![c].ops = Append(@, Op(c, r, "wait"))]
              /\ Goto(r, "logs")
           \/ /\ Raise(r, "wait")
              /\ UNCHANGED containers
    /\ UNCHANGED <<world, request, container, idx, writes, lines, results,
                   strm, in_obj, output_tarball>>

\* eval_commands, line 72: api_client.wait returns once the process has ended.
Wait(r) ==
    /\ pc[r] = "wait"
    /\ LET c == container[r]
       IN  \/ /\ containers[c].status = "exited"
              /\ containers' = [containers EXCEPT
                     ![c].ops = Append(@, Op(c, r, "wait"))]
              /\ Goto(r, "logs")
           \/ /\ Raise(r, "wait")
              /\ UNCHANGED containers
    /\ UNCHANGED <<world, request, container, idx, writes, lines, results,
                   strm, in_obj, output_tarball>>

\* eval_commands, line 74: api_client.logs(...).decode()
Logs(r) ==
    /\ pc[r] = "logs"
    /\ LET c == container[r]
       IN  \/ \E bytes \in LogsOf(world) :
                /\ containers' = [containers EXCEPT
                       ![c].ops = Append(@, Op(c, r, "logs"))]
                /\ IF Decodable(bytes)
                   THEN /\ lines' = [lines EXCEPT ![r] = Utf8Decode(bytes)]
                        /\ Goto(r, "parse")
                   ELSE /\ Raise(r, "decode")
                        /\ UNCHANGED lines
           \/ /\ Raise(r, "logs")
              /\ UNCHANGED <<containers, lines>>
    /\ UNCHANGED <<world, request, container, idx, writes, results, strm,
                   in_obj, output_tarball>>

\* Mutant of Parse: the container is removed before the archive is retrieved.
ParseThenRemove(r) ==
    /\ pc[r] = "parse"
    /\ results' = [results EXCEPT ![r] = parse_output(lines[r])]
    /\ containers' = [containers EXCEPT
           ![container[r]].ops = Append(@, Op(container[r], r, "remove")),
           ![container[r]].status = "removed"]
    /\ Goto(r, "retrieve")
    /\ UNCHANGED <<world, request, container, idx, writes, lines, strm, in_obj,
                   output_tarball>>

\* run, line 158
Parse(r) ==
    /\ pc[r] = "parse"
    /\ results' = [results EXCEPT ![r] = parse_output(lines[r])]
    /\ Goto(r, "retrieve")
    /\ UNCHANGED <<world, request, container, containers, idx, writes, lines,
                   strm, in_obj, output_tarball>>

\* Mutant of Retrieve: no early return for an empty pattern list.
RetrieveAlways(r) ==
    /\ pc[r] = "retrieve"
    /\ Goto(r, "get_archive")
    /\ UNCHANGED <<world, request, container, containers, idx, writes, lines,
                   results, strm, in_obj, output_tarball>>

\* run, line 160, and retrieve_archive_base64, lines 112-116
Retrieve(r) ==
    /\ pc[r] = "retrieve"
    /\ IF Artifacts(r) = <<>>
       THEN /\ output_tarball' = [output_tarball EXCEPT ![r] = None]
            /\ Goto(r, "remove")
       ELSE /\ Goto(r, "get_archive")
            /\ UNCHANGED output_tarball
    /\ UNCHANGED <<world, request, container, containers, idx, writes, lines,
                   results, strm, in_obj>>

\* retrieve_archive_base64, lines 118-122: the daemon streams the tree the
\* process left under the base path, in chunks of its choosing.
GetArchive(r) ==
    /\ pc[r] = "get_archive"
    /\ LET c == container[r]
       IN  \/ \E tree \in TreesOf(world) : \E chunks \in Chunkings(tree, MaxChunks) :
                /\ containers' = [containers EXCEPT
                       ![c].tree = tree,
                       ![c].ops = Append(@, Op(c, r, "get_archive"))]
                /\ strm' = [strm EXCEPT ![r] = chunks]
                /\ in_obj' = [in_obj EXCEPT ![r] = <<>>]
                /\ Goto(r, "drain")
           \/ /\ Raise(r, "get_archive")
              /\ UNCHANGED <<containers, strm, in_obj>>
    /\ UNCHANGED <<world, request, container, idx, writes, lines, results,
                   output_tarball>>

\* Mutant of Drain: each chunk replaces what was read before it.
DrainKeepsLast(r) ==
    /\ pc[r] = "drain"
    /\ \/ /\ in_obj' = [in_obj EXCEPT ![r] = Head(strm[r])]
          /\ strm' = [strm EXCEPT ![r] = Tail(@)]
          /\ Goto(r, IF Tail(strm[r]) = <<>> THEN "filter" ELSE "drain")
       \/ /\ Raise(r, "stream")
          /\ UNCHANGED <<in_obj, strm>>
    /\ UNCHANGED <<world, request, container, containers, idx, writes, lines,
                   results, output_tarball>>

\* retrieve_archive_base64, lines 123-124: one iteration of the loop.
Drain(r) ==
    /\ pc[r] = "drain"
    /\ \/ /\ in_obj' = [in_obj EXCEPT ![r] = @ \o Head(strm[r])]
          /\ strm' = [strm EXCEPT ![r] = Tail(@)]
          /\ Goto(r, IF Tail(strm[r]) = <<>> THEN "filter" ELSE "drain")
       \/ /\ Raise(r, "stream")
          /\ UNCHANGED <<in_obj, strm>>
    /\ UNCHANGED <<world, request, container, containers, idx, writes, lines,
                   results, output_tarball>>

\* Mutant of Filter: an archive without members is returned as None.
FilterNoneWhenEmpty(r) ==
    /\ pc[r] = "filter"
    /\ IF ExtractRaises(in_obj[r], BasePath(r), Artifacts(r))
       THEN /\ Raise(r, "extractfile")
            /\ UNCHANGED output_tarball
       ELSE /\ output_tarball' = [output_tarball EXCEPT ![r] =
                  IF FilterArchive(in_obj[r], BasePath(r), Artifacts(r)) = <<>>
                  THEN None
                  ELSE B64Encode(FilterArchive(in_obj[r], BasePath(r), Artifacts(r)))]
            /\ Goto(r, "remove")
    /\ UNCHANGED <<world, request, container, containers, idx, writes, lines,
                   results, strm, in_obj>>

\* retrieve_archive_base64, lines 126-140
Filter(r) ==
    /\ pc[r] = "filter"
    /\ IF ExtractRaises(in_obj[r], BasePath(r), Artifacts(r))
       THEN /\ Raise(r, "extractfile")
            /\ UNCHANGED output_tarball
       ELSE /\ output_tarball' = [output_tarball EXCEPT ![r] =
                  B64Encode(FilterArchive(in_obj[r], BasePath(r), Artifacts(r)))]
            /\ Goto(r, "remove")
    /\ UNCHANGED <<world, request, container, containers, idx, writes, lines,
                   results, strm, in_obj>>

\* run, line 165
Remove(r) ==
    /\ pc[r] = "remove"
    /\ LET c == container[r]
       IN  \/ /\ containers' = [containers EXCEPT
                     ![c].ops = Append(@, Op(c, r, "remove")),
                     ![c].status = "removed"]
              /\ Goto(r, "return")
           \/ /\ Raise(r, "remove_container")
              /\ UNCHANGED containers
    /\ UNCHANGED <<world, request, container, idx, writes, lines, results,
                   strm, in_obj, output_tarball>>

\* run, line 166
Return(r) ==
    /\ pc[r] = "return"
    /\ pc' = [pc EXCEPT ![r] = "returned"]
    /\ ret' = [ret EXCEPT ![r] = [t |-> "result", results |-> results[r],
                                  output |-> output_tarball[r]]]
    /\ UNCHANGED <<world, request, container, containers, idx, writes, lines,
                   results, strm, in_obj, output_tarball>>

Next ==
    \/ \E r \in Requests :
         \/ CreateContainer(r) \/ ReadRequest(r) \/ PutArchive(r) \/ Start(r)
         \/ Attach(r) \/ Write(r) \/ Close(r) \/ Wait(r) \/ Logs(r) \/ Parse(r)
         \/ Retrieve(r) \/ GetArchive(r) \/ Drain(r) \/ Filter(r) \/ Remove(r)
         \/ Return(r)
    \/ \E c \in 1..Len(containers) : ProcessExit(c)


\* run(request): a dict with the keys in `keys`, or the default None.
Req(keys, commands, source, dist) ==
    [none |-> FALSE, keys |-> keys, commands |-> commands, source |-> source,
     dist |-> dist]
NoneRequest ==
    [none |-> TRUE, keys |-> {}, commands |-> <<>>, source |-> None,
     dist |-> EmptyDist]
AllKeys == {"commands", "source", "dist"}
BaseRequests ==
    {NoneRequest, Req({}, <<>>, None, EmptyDist),
     Req(AllKeys, <<>>, B64Encode(SrcArchive), DistTxt),
     Req(AllKeys, <<>>, Str(<<"x">>), Dist(Build, <<>>))}

\* One call of run, on a daemon without containers.
InitWith(w, reqs) ==
    /\ world = w
    /\ request \in {[r \in Requests |-> IF r = "r1" THEN q ELSE NoneRequest] :
                      q \in reqs}
    /\ pc = [r \in Requests |-> IF r = "r1" THEN "create" ELSE "idle"]
    /\ container = [r \in Requests |-> 0]
    /\ containers = <<>>
    /\ idx = [r \in Requests |-> 0]
    /\ writes = [r \in Requests |-> <<>>]
    /\ lines = [r \in Requests |-> <<>>]
    /\ results = [r \in Requests |-> <<>>]
    /\ strm = [r \in Requests |-> <<>>]
    /\ in_obj = [r \in Requests |-> <<>>]
    /\ output_tarball = [r \in Requests |-> None]
    /\ ret = [r \in Requests |-> [t |-> "pending"]]

\* Whole requests against a small environment.
Init ==
    InitWith([logs |-> "small", trees |-> "small"],
             BaseRequests
             \cup {Req(AllKeys, c, s, d) :
                     c \in Lists({CmdEcho, CmdLs}, MaxCmds), s \in SourceSet,
                     d \in DistSmall})
Spec == Init /\ [][Next]_vars

\* The command stream: every command list over the four commands.
InitStream ==
    InitWith([logs |-> "small", trees |-> "small"],
             BaseRequests
             \cup {Req({"commands"}, c, None, EmptyDist) :
                     c \in Lists(CmdSet, MaxCmds)})
SpecStream == InitStream /\ [][Next]_vars

\* The parser: every log of at most MaxPieces pieces.
InitParse ==
    InitWith([logs |-> "all", trees |-> "small"],
             BaseRequests)
SpecParse == InitParse /\ [][Next]_vars

\* The archive filter: every tree, pattern list and chunking.
InitArchive ==
    InitWith([logs |-> "small", trees |-> "all"],
             BaseRequests
             \cup {Req({"dist"}, <<>>, None, d) : d \in DistAll})
SpecArchive == InitArchive /\ [][Next]_vars

\* Two calls of run at once, each with a request of its own, on one daemon.
ConcRequests ==
    {Req(AllKeys, <<>>, B64Encode(SrcArchive), DistTxt),
     Req({"commands"}, <<>>, None, EmptyDist)}
InitConc ==
    /\ world = [logs |-> "small", trees |-> "small"]
    /\ request \in [Requests -> ConcRequests]
    /\ pc = [r \in Requests |-> "create"]
    /\ container = [r \in Requests |-> 0]
    /\ containers = <<>>
    /\ idx = [r \in Requests |-> 0]
    /\ writes = [r \in Requests |-> <<>>]
    /\ lines = [r \in Requests |-> <<>>]
    /\ results = [r \in Requests |-> <<>>]
    /\ strm = [r \in Requests |-> <<>>]
    /\ in_obj = [r \in Requests |-> <<>>]
    /\ output_tarball = [r \in Requests |-> None]
    /\ ret = [r \in Requests |-> [t |-> "pending"]]
SpecConc == InitConc /\ [][Next]_vars


\* ------------------------------------------------------------------ claims
\* The requests that were made, and the positions of the operations named
\* `name` in the daemon's record of container c.
Called == {r \in Requests : pc[r] # "idle"}
OpsAt(c, name) == {i \in 1..Len(containers[c].ops) : containers[c].ops[i].op = name}

\* The stages of run after the write loop, and the exceptions raised there.
AfterLoop == {"close", "wait", "logs", "parse", "retrieve", "get_archive",
              "drain", "filter", "remove", "return", "returned"}
RaisedAfterLoop == {"close", "wait", "logs", "decode", "get_archive", "stream",
                    "extractfile", "remove_container"}
LoopDone(r) ==
    pc[r] \in AfterLoop \/ (pc[r] = "raised" /\ ret[r].at \in RaisedAfterLoop)

\* The call of run has ended: it returned or an exception left it.
Ended(r) == pc[r] \in {"returned", "raised"}

\* C1: every call of run that has created a container has removed it when
\* the call ends, whether it returns a Result or a later stage fails.
C1_RemovedOnEveryExit ==
    \A r \in Called :
        (Ended(r) /\ container[r] # 0) =>
            containers[container[r]].status = "removed"

\* The line the contract asks for: every line feed of the command replaced
\* by " ; ", and a line feed appended.
RECURSIVE Separated(_)
Separated(cmd) ==
    IF cmd = <<>> THEN <<>>
    ELSE (IF Head(cmd) = LF THEN <<" ", ";", " ">> ELSE <<Head(cmd)>>)
         \o Separated(Tail(cmd))
ContractLine(cmd) == Utf8Encode(Separated(cmd) \o <<LF>>)
ExitLine == Utf8Encode(<<"e", "x", "i", "t", LF>>)

\* C2: the writes issued are, in request order, the contract's line of each
\* command and then "exit\n": never more than n+1, and exactly n+1 once the
\* loop is over; ["echo a\necho b"] streams as "echo a ; echo b\n", "exit\n".
C2_WritesAreCommandsThenExit ==
    \A r \in Called :
        LET n == Len(Commands(r))
            w == writes[r]
        IN  /\ Len(w) <= n + 1
            /\ \A i \in 1..Len(w) :
                 w[i] = IF i <= n THEN ContractLine(Commands(r)[i]) ELSE ExitLine
            /\ LoopDone(r) => Len(w) = n + 1
            /\ (LoopDone(r) /\ Commands(r) = <<CmdEcho>>) =>
                 w = <<Utf8Encode(<<"e", "c", "h", "o", " ", "a", " ", ";", " ",
                                    "e", "c", "h", "o", " ", "b", LF>>),
                       ExitLine>>

\* C2's case: a list of two commands, one with several line feeds, streamed
\* to the end.
C2_Witness ==
    \E r \in Called :
        /\ pc[r] = "returned"
        /\ Len(Commands(r)) = 2
        /\ Commands(r)[2] = CmdLines
        /\ Len(writes[r]) = 3

\* C3: a truthy source is unpacked exactly once and before the start, the
\* start precedes every write, and without a source nothing is unpacked.
C3_UnpackStartStream ==
    \A r \in Called :
        container[r] # 0 =>
            LET c == container[r]
                puts == OpsAt(c, "put_archive")
                starts == OpsAt(c, "start")
            IN  /\ Cardinality(puts) <= 1
                /\ ~Truthy(Source(r)) => puts = {}
                /\ \A s \in starts :
                     /\ Truthy(Source(r)) =>
                          /\ \E p \in puts : p < s
                          /\ containers[c].src = B64Decode(Source(r))
                     /\ \A p \in puts : p < s
                /\ \A w \in OpsAt(c, "write") : \E s \in starts : s < w
                /\ writes[r] # <<>> => starts # {}

C3_Witness ==
    \E r \in Called :
        /\ container[r] # 0
        /\ Truthy(Source(r))
        /\ OpsAt(container[r], "put_archive") # {}
        /\ OpsAt(container[r], "write") # {}

\* C4: "exit" is the last write, the close follows it and nothing is written
\* after the close; the wait returns after the close and the log is read
\* after the wait, from a process that has ended.
C4_ExitCloseWaitLogs ==
    \A r \in Called :
        container[r] # 0 =>
            LET c == container[r]
                n == Len(Commands(r))
                ops == containers[c].ops
            IN  /\ \A k \in OpsAt(c, "close") :
                     /\ \A w \in OpsAt(c, "write") : w < k
                     /\ ops[k - 1].op = "write"
                /\ containers[c].closed =>
                     /\ Len(writes[r]) = n + 1
                     /\ writes[r][n + 1] = ExitLine
                     /\ Cardinality(OpsAt(c, "write")) = n + 1
                /\ \A k \in OpsAt(c, "wait") :
                     /\ \E j \in OpsAt(c, "close") : j < k
                     /\ ops[k].status = "exited"
                /\ \A k \in OpsAt(c, "logs") :
                     /\ \E j \in OpsAt(c, "wait") : j < k
                     /\ ops[k].status = "exited"

C4_Witness ==
    \E r \in Called :
        /\ container[r] # 0
        /\ Len(Commands(r)) = 2
        /\ OpsAt(container[r], "logs") # {}
        /\ pc[r] = "parse"

\* C5: once a write or the close has failed nothing more is written, the
\* call has raised and holds no Result; a Result comes only from a call
\* whose every write and whose close succeeded.
C5_StreamFailureAborts ==
    \A r \in Called :
        container[r] # 0 =>
            LET c == container[r]
                n == Len(Commands(r))
                written == Cardinality(OpsAt(c, "write"))
            IN  /\ written < Len(writes[r]) =>
                     /\ pc[r] = "raised"
                     /\ ret[r] = [t |-> "raised", at |-> "write"]
                     /\ Len(writes[r]) = written + 1
                /\ (LoopDone(r) /\ pc[r] # "close" /\ ~containers[c].closed) =>
                     /\ pc[r] = "raised"
                     /\ ret[r] = [t |-> "raised", at |-> "close"]
                /\ pc[r] = "raised" => ret[r].t = "raised"
                /\ ret[r].t = "result" =>
                     /\ pc[r] = "returned"
                     /\ written = n + 1
                     /\ containers[c].closed

\* C5's case: a write fails with commands still to send.
C5_Witness ==
    \E r \in Called :
        /\ pc[r] = "raised"
        /\ ret[r].at = "write"
        /\ Len(writes[r]) = 2
        /\ Len(Commands(r)) = 2


\* retrieve_archive_base64 has returned from its filtering branch.
Filtered(r) ==
    /\ Artifacts(r) # <<>>
    /\ \/ pc[r] \in {"remove", "return", "returned"}
       \/ pc[r] = "raised" /\ ret[r].at = "remove_container"

\* The archive a present output encodes.
Decoded(r) == B64Decode(output_tarball[r])

\* C6: with artifacts empty or missing no get_archive is issued, the function
\* returns None, and the Result's output is None.
C6_NoArtifactsNoRetrieval ==
    \A r \in Called :
        Artifacts(r) = <<>> =>
            /\ container[r] # 0 => OpsAt(container[r], "get_archive") = {}
            /\ pc[r] \notin {"get_archive", "drain", "filter"}
            /\ pc[r] = "raised" =>
                 ret[r].at \notin {"get_archive", "stream", "extractfile"}
            /\ output_tarball[r] = None
            /\ ret[r].t = "result" => ret[r].output = None

\* C6's case: a Result for a request whose dist has an empty artifacts list.
C6_Witness ==
    \E r \in Called :
        /\ ret[r].t = "result"
        /\ "dist" \in request[r].keys
        /\ "artifacts" \in request[r].dist.keys
        /\ Artifacts(r) = <<>>

\* C7: with artifacts non-empty and no member of the retrieved archive
\* matching, the value returned is present and encodes an archive without
\* members, and so is the Result's output.
C7_NoMatchGivesEmptyArchive ==
    \A r \in Called :
        (/\ Filtered(r)
         /\ \A i \in 1..Len(in_obj[r]) :
              ~Selected(in_obj[r][i], BasePath(r), Artifacts(r))) =>
            /\ output_tarball[r] # None
            /\ B64Valid(output_tarball[r])
            /\ Decoded(r) = <<>>
            /\ ret[r].t = "result" => ret[r].output = output_tarball[r]

C7_Witness ==
    \E r \in Called :
        /\ ret[r].t = "result"
        /\ Artifacts(r) # <<>>
        /\ Len(in_obj[r]) >= 2
        /\ B64Valid(ret[r].output)
        /\ B64Decode(ret[r].output) = <<>>

\* C8: the archive returned holds exactly the matching members of the
\* retrieved archive, each once, in their order there, each with its name,
\* metadata and content.
C8_ExactlyMatchingMembers ==
    \A r \in Called :
        Filtered(r) =>
            LET Keep(m) == Selected(m, BasePath(r), Artifacts(r))
            IN  /\ B64Valid(output_tarball[r])
                /\ Decoded(r) = SelectSeq(in_obj[r], Keep)
                /\ ret[r].t = "result" => ret[r].output = output_tarball[r]

\* C8's case: two of three members kept, a link among them.
C8_Witness ==
    \E r \in Called :
        /\ ret[r].t = "result"
        /\ in_obj[r] = <<MA, MB, ML>>
        /\ B64Valid(ret[r].output)
        /\ B64Decode(ret[r].output) = <<MA, ML>>

\* The i-th member of the retrieved archive is in the archive returned.
InOutput(r, i) == \E j \in 1..Len(Decoded(r)) : Decoded(r)[j] = in_obj[r][i]

\* Some pattern, joined with base_path, matches the name.
GlobAny(r, name, crossing) ==
    \E k \in 1..Len(Artifacts(r)) :
        Glob(name, PathJoin(BasePath(r), Artifacts(r)[k]), crossing)

\* C9 as stated: a member is selected iff some joined pattern matches its
\* path with wildcards that stay within one path segment.
C9_SegmentGlobSelects ==
    \A r \in Called :
        Filtered(r) =>
            \A i \in 1..Len(in_obj[r]) :
                InOutput(r, i) <=> GlobAny(r, in_obj[r][i].name, FALSE)

\* C9 as amended: a member is selected iff some joined pattern matches its
\* path case-sensitively with wildcards that match any character, the
\* separator included; and the filter raises only for a member so selected.
C9_CrossingGlobSelects ==
    \A r \in Called :
        /\ Filtered(r) =>
             \A i \in 1..Len(in_obj[r]) :
                 InOutput(r, i) <=> GlobAny(r, in_obj[r][i].name, TRUE)
        /\ (pc[r] = "raised" /\ ret[r].at = "extractfile") =>
             \E i \in 1..Len(in_obj[r]) :
                 /\ GlobAny(r, in_obj[r][i].name, TRUE)
                 /\ in_obj[r][i].type = "sym"

\* C9's case: "*.txt" under "build" keeps build/a.txt and build/sub/c.txt and
\* leaves build/b.log out.
C9_Witness ==
    \E r \in Called :
        /\ ret[r].t = "result"
        /\ BasePath(r) = Build
        /\ Artifacts(r) = <<PTxt>>
        /\ in_obj[r] = <<MA, MB, MC>>
        /\ B64Decode(ret[r].output) = <<MA, MC>>

\* A line matches the tag pattern: "[", a name without "]" (possibly empty),
\* "]", one space, the remainder.
Tagged(line) ==
    \E j \in 2..(Len(line) - 1) :
        /\ line[1] = "["
        /\ line[j] = "]"
        /\ \A k \in 2..(j - 1) : line[k] # "]"
        /\ line[j + 1] = " "

\* The block holds at least one tagged line.
HasTagged(block) ==
    LET ls == Split(block, <<LF>>) IN \E i \in 1..Len(ls) : Tagged(ls[i])

\* run has assigned `results`.
Parsed(r) ==
    \/ pc[r] \in {"retrieve", "get_archive", "drain", "filter", "remove",
                  "return", "returned"}
    \/ pc[r] = "raised" /\ ret[r].at \in {"get_archive", "stream", "extractfile",
                                          "remove_container"}

\* C10: the records are, in block order, one for each block that holds a
\* tagged line (the empty tag name included) and none for any other block.
C10_RecordPerTaggedBlock ==
    \A r \in Called :
        Parsed(r) =>
            LET tagged == SelectSeq(Blocks(lines[r]), HasTagged)
            IN  /\ Len(results[r]) = Len(tagged)
                /\ \A k \in 1..Len(tagged) :
                     results[r][k] = GroupLines(Split(tagged[k], <<LF>>), EmptyDict)

\* The blocks the contract describes: the normalised text cut at every line
\* that is exactly three dashes and ends in a line feed, and nowhere else.
RECURSIVE LineBlocks(_, _, _)
LineBlocks(text, atLineStart, cur) ==
    IF text = <<>> THEN <<cur>>
    ELSE IF atLineStart /\ StartsWith(text, <<"-", "-", "-", LF>>)
         THEN <<cur>> \o LineBlocks(Drop(text, 4), TRUE, <<>>)
         ELSE LineBlocks(Tail(text), Head(text) = LF, Append(cur, Head(text)))
DividerBlocks(output) == LineBlocks(Replace(output, <<CR, LF>>, <<LF>>), TRUE, <<>>)

\* C11: the text is cut into blocks at divider lines only, so a line that
\* merely ends in three dashes stays in its block and its whole remainder is
\* the value recorded.
C11_BlocksCutAtDividerLines ==
    \A r \in Called :
        Parsed(r) =>
            /\ Blocks(lines[r]) = DividerBlocks(lines[r])
            /\ results[r] = ParseBlocks(DividerBlocks(lines[r]))

\* The tag name and the remainder of a tagged line: what stands between "["
\* and the first "]", and what follows the space after it.
CloseAt(line) == CHOOSE j \in 2..Len(line) : line[j] = "]" /\ \A k \in 2..(j - 1) : line[k] # "]"
TagOf(line) == SubSeq(line, 2, CloseAt(line) - 1)
RemainderOf(line) == SubSeq(line, CloseAt(line) + 2, Len(line))

\* The remainders of the lines tagged t, in their order among the lines.
RECURSIVE Remainders(_, _)
Remainders(ls, t) ==
    IF ls = <<>> THEN <<>>
    ELSE (IF Tagged(Head(ls)) /\ TagOf(Head(ls)) = t
          THEN <<RemainderOf(Head(ls))>> ELSE <<>>)
         \o Remainders(Tail(ls), t)

\* The tags of the tagged lines among the lines.
TagsOf(ls) == {TagOf(ls[i]) : i \in {j \in 1..Len(ls) : Tagged(ls[j])}}

\* C12: the records are those of the blocks with a tagged line, and in each
\* the list under a tag is the sequence of remainders of the block's lines
\* with that tag, in order of appearance; untagged lines add nothing and no
\* other tag is recorded.
C12_ListsAreRemaindersInOrder ==
    \A r \in Called :
        Parsed(r) =>
            LET blocks == SelectSeq(DividerBlocks(lines[r]), HasTagged)
            IN  /\ Len(results[r]) = Len(blocks)
                /\ \A k \in 1..Len(blocks) :
                     LET ls == Split(blocks[k], <<LF>>)
                     IN  /\ DOMAIN results[r][k] = TagsOf(ls)
                         /\ \A t \in TagsOf(ls) :
                              results[r][k][t] = Remainders(ls, t)


\* The text rebuilt from records: every value as the line "[tag] value" ended
\* by a line feed, the values of a tag in their order, records separated by
\* the divider line.
RECURSIVE ValueLines(_, _)
ValueLines(t, values) ==
    IF values = <<>> THEN <<>>
    ELSE <<"[">> \o t \o <<"]", " ">> \o Head(values) \o <<LF>>
         \o ValueLines(t, Tail(values))
RECURSIVE RecordText(_, _)
RecordText(rec, tags) ==
    IF tags = {} THEN <<>>
    ELSE LET t == CHOOSE x \in tags : TRUE
         IN  ValueLines(t, rec[t]) \o RecordText(rec, tags \ {t})
RECURSIVE Rebuild(_)
Rebuild(recs) ==
    IF recs = <<>> THEN <<>>
    ELSE RecordText(Head(recs), DOMAIN Head(recs))
         \o (IF Len(recs) = 1 THEN <<>>
             ELSE <<"-", "-", "-", LF>> \o Rebuild(Tail(recs)))

\* C13: on a log without a carriage-return + line-feed pair, parsing the text
\* rebuilt from the records gives the same records again.
C13_ReparseOfRebuiltText ==
    \A r \in Called :
        (Parsed(r) /\ Find(lines[r], <<CR, LF>>) < 0) =>
            parse_output(Rebuild(results[r])) = results[r]


\* How often the divider text occurs in the text, counted from the left
\* without overlap.
RECURSIVE Dividers(_)
Dividers(text) ==
    IF Len(text) < 4 THEN 0
    ELSE IF StartsWith(text, <<"-", "-", "-", LF>>) THEN 1 + Dividers(Drop(text, 4))
    ELSE Dividers(Tail(text))

\* C14 as stated: a Result has at most as many records as the request has
\* commands.
C14_RecordsAtMostCommands ==
    \A r \in Called :
        ret[r].t = "result" => Len(ret[r].results) <= Len(Commands(r))

\* C14 as amended: a Result has at most one record more than the normalised
\* log has divider texts, whatever the number of commands.
C14_RecordsAtMostBlocks ==
    \A r \in Called :
        /\ Parsed(r) =>
             Len(results[r]) <= Dividers(Replace(lines[r], <<CR, LF>>, <<LF>>)) + 1
        /\ ret[r].t = "result" => ret[r].results = results[r]

\* C14's case: a Result with two records for a request without commands.
C14_Witness ==
    \E r \in Called :
        /\ ret[r].t = "result"
        /\ Commands(r) = <<>>
        /\ Len(ret[r].results) = 2
        /\ Dividers(lines[r]) = 1


\* The request that created container c, and the containers a request created.
Owner(c) == containers[c].ops[1].by
CreatedBy(r) == {c \in 1..Len(containers) : Owner(c) = r}

\* Request r takes the step: a local of its call of run changes.
Steps(r) ==
    \/ pc'[r] # pc[r] \/ idx'[r] # idx[r] \/ writes'[r] # writes[r]
    \/ strm'[r] # strm[r] \/ in_obj'[r] # in_obj[r]

\* Every operation the daemon recorded on a container is its creator's, each
\* request holds the one container it created, and what the request unpacked
\* there is its own source.
C15_Own ==
    /\ \A c \in 1..Len(containers) :
         /\ containers[c].ops[1].op = "create"
         /\ \A i \in 1..Len(containers[c].ops) :
              /\ containers[c].ops[i].by = Owner(c)
              /\ i > 1 => containers[c].ops[i].op # "create"
         /\ container[Owner(c)] = c
         /\ OpsAt(c, "put_archive") # {} =>
              containers[c].src = B64Decode(Source(Owner(c)))
         /\ Cardinality(OpsAt(c, "write")) <= Len(writes[Owner(c)])
    /\ \A r \in Requests :
         CreatedBy(r) = IF container[r] = 0 THEN {} ELSE {container[r]}

\* A step that changes a container is a step of its creator or the end of
\* the container's process, and a step of a request changes no container but
\* its own.
C15_Step ==
    \A c \in 1..Len(containers) :
        containers'[c] # containers[c] =>
            \A r \in Requests \ {Owner(c)} : ~Steps(r)

\* C15: under every interleaving of concurrent calls of run each request
\* creates one container, every operation on a container is issued by the
\* request that created it, and no request touches another's container.
C15_OwnEnvironmentOnly == []C15_Own /\ [][C15_Step]_vars

\* C15's case: both calls returned a Result, the second caller's container
\* having been created first.
C15_Witness ==
    /\ ret["r1"].t = "result"
    /\ ret["r2"].t = "result"
    /\ container["r1"] = 2
    /\ container["r2"] = 1
    /\ request["r1"] # request["r2"]


\* retrieve_archive_base64 has returned to run.
Collected(r) ==
    \/ pc[r] \in {"remove", "return", "returned"}
    \/ pc[r] = "raised" /\ ret[r].at = "remove_container"

\* The lifecycle state of container c: 1 Created, 2 Running, 3 Exited,
\* 4 Collected, 5 Destroyed.
Life(c) ==
    IF containers[c].status = "removed" THEN 5
    ELSE IF Collected(Owner(c)) THEN 4
    ELSE IF containers[c].status = "exited" THEN 3
    ELSE IF containers[c].status = "running" THEN 2
    ELSE 1
LifeNext(c) ==
    IF containers'[c].status = "removed" THEN 5
    ELSE IF Collected(Owner(c))' THEN 4
    ELSE IF containers'[c].status = "exited" THEN 3
    ELSE IF containers'[c].status = "running" THEN 2
    ELSE 1

\* The log is read, parsed and the archive fetched from a process that has
\* ended; the removal comes after the collection, once, and is the last
\* operation on the container.
C16_Order ==
    \A c \in 1..Len(containers) :
        LET ops == containers[c].ops
            r == Owner(c)
        IN  /\ \A i \in OpsAt(c, "logs") \cup OpsAt(c, "get_archive") :
                 ops[i].status = "exited"
            /\ Parsed(r) => containers[c].status \in {"exited", "removed"}
            /\ Cardinality(OpsAt(c, "remove")) <= 1
            /\ containers[c].status = "removed" <=> OpsAt(c, "remove") # {}
            /\ \A i \in OpsAt(c, "remove") :
                 /\ i = Len(ops)
                 /\ ops[i].status = "exited"
                 /\ Collected(r)
                 /\ \E j \in OpsAt(c, "logs") : j < i
                 /\ Artifacts(r) # <<>> => \E j \in OpsAt(c, "get_archive") : j < i
            /\ Life(c) >= 4 => Cardinality(OpsAt(c, "start")) = 1

\* A step leaves the lifecycle state of a container or moves it to the next
\* one; a new container is Created; a destroyed one changes no more.
C16_Step ==
    /\ \A c \in 1..Len(containers) :
         /\ LifeNext(c) \in {Life(c), Life(c) + 1}
         /\ Life(c) = 5 => containers'[c] = containers[c]
    /\ \A c \in (Len(containers) + 1)..Len(containers') :
         containers'[c].status = "created"

\* C16: the container of a run goes through Created, Running, Exited,
\* Collected, Destroyed in that order, one state at a time and never back;
\* log and archive are taken after the process has ended, the removal
\* follows the collection, happens at most once and nothing is issued after.
C16_LifecycleInOrder == []C16_Order /\ [][C16_Step]_vars

\* C16's case: a container that went through the whole lifecycle, archive
\* retrieval included.
C16_Witness ==
    \E r \in Called :
        /\ ret[r].t = "result"
        /\ OpsAt(container[r], "get_archive") # {}
        /\ OpsAt(container[r], "put_archive") # {}
        /\ Life(container[r]) = 5


\* eval_commands has returned its log text to run.
EvalReturned(r) == pc[r] = "parse" \/ Parsed(r)

\* The lines the contract asks for, in request order, and "exit" after them.
ContractLines(r) ==
    [i \in 1..(Len(Commands(r)) + 1) |->
        IF i <= Len(Commands(r)) THEN ContractLine(Commands(r)[i]) ELSE ExitLine]

\* C17: when eval_commands returns without an error, the bytes the stream
\* accepted are the concatenation of every command's line and the exit line,
\* also when a write accepted fewer bytes than it was offered.
C17_AcceptedBytesAreAllLines ==
    \A r \in Called :
        (container[r] # 0 /\ EvalReturned(r)) =>
            containers[container[r]].stdin = Concat(ContractLines(r))


\* The archive has been handed to tarfile: the filter is about to run, has
\* returned or has raised.
Opened(r) ==
    \/ pc[r] = "filter"
    \/ Filtered(r)
    \/ pc[r] = "raised" /\ ret[r].at = "extractfile"

\* C18: while the stream is read, what was read and what is still to come
\* make up the archive streamed, in order; the archive is opened only with
\* the stream exhausted and is then the whole archive streamed; and the
\* archive returned is the filter of the archive streamed, whatever the chunks.
C18_ParsedAfterStreamWhole ==
    \A r \in Called :
        container[r] # 0 =>
            LET tree == containers[container[r]].tree
                Keep(m) == Selected(m, BasePath(r), Artifacts(r))
            IN  /\ pc[r] = "drain" =>
                     /\ strm[r] # <<>>
                     /\ in_obj[r] \o Concat(strm[r]) = tree
                /\ Opened(r) =>
                     /\ strm[r] = <<>>
                     /\ in_obj[r] = tree
                /\ Filtered(r) => Decoded(r) = SelectSeq(tree, Keep)

\* C18's case: an archive of three members on its way in two chunks, the
\* first chunk read and the second, of two members, still to come.
C18_Witness ==
    \E r \in Called :
        /\ pc[r] = "drain"
        /\ Artifacts(r) = <<PTxt>>
        /\ containers[container[r]].tree = <<MA, MB, MC>>
        /\ in_obj[r] = <<MA>>
        /\ strm[r] = <<<<MB, MC>>>>


\* The number of line feeds among the bytes.
RECURSIVE LineFeeds(_)
LineFeeds(bytes) ==
    IF bytes = <<>> THEN 0
    ELSE (IF Head(bytes) = 10 THEN 1 ELSE 0) + LineFeeds(Tail(bytes))

\* The buffer holds one line feed, and it is its last byte.
OneLine(buf) == buf # <<>> /\ buf[Len(buf)] = 10 /\ LineFeeds(buf) = 1

\* C19: every buffer written holds one line feed, as its last byte, whatever
\* line feeds the command holds; so the shell is sent one line for each
\* command and one for "exit": n+1 lines once eval_commands has returned.
C19_OneLinePerCommand ==
    \A r \in Called :
        /\ \A i \in 1..Len(writes[r]) : OneLine(writes[r][i])
        /\ (container[r] # 0 /\ EvalReturned(r)) =>
             /\ LineFeeds(Concat(writes[r])) = Len(Commands(r)) + 1
             /\ LineFeeds(containers[container[r]].stdin) = Len(Commands(r)) + 1


=============================================================================
